---- MODULE Spec2Model ----
(***************************************************************************)
(* Model of mantis_iodef_importer.importer.iodef_Import: the hooks it      *)
(* hands to the generic MANTIS/DINGOS XML importer and its xml_import      *)
(* entry point.                                                            *)
(*                                                                         *)
(* Python strings that the code formats, splits, searches or parses are    *)
(* sequences of one-character strings; element names, which the code only  *)
(* compares, are TLA+ strings.  An optional value (Python None or a value) *)
(* is a sequence of length 0 or 1.                                         *)
(***************************************************************************)
EXTENDS Integers, Sequences, FiniteSets, TLC

VARIABLES
    self,           \* the fields of the iodef_Import instance
    now,            \* the clock read by timezone.now()
    ncalls,         \* number of xml_import calls made so far
    call,           \* arguments of the latest xml_import call (<<>> before the first)
    pending_stack,  \* pending_stack of the latest xml_import call
    created,        \* keyword arguments of the create_iobject calls of the latest call
    raised,         \* TRUE when the latest xml_import call ended in an exception
    xml_elt,        \* argument of a direct id_and_revision_extractor call
    extracted,      \* its result (<<>> before the call)
    fact_in,        \* fact and attribute map the host presents to the fact hooks
    fact_out,       \* what the host's fact pipeline made of it (<<>> before)
    embed_in,       \* parent, child and ns_mapping the host presents to embedding_pred
    embed_out       \* what embedding_pred returned for them (<<>> before)

vars == <<self, now, ncalls, call, pending_stack, created, raised,
          xml_elt, extracted, fact_in, fact_out, embed_in, embed_out>>

importVars  == <<self, now, ncalls, call, pending_stack, created, raised>>
extractVars == <<xml_elt, extracted>>
factVars    == <<fact_in, fact_out>>
embedVars   == <<embed_in, embed_out>>

----------------------------------------------------------------------------
(* Bounds of the model *)

MaxChildren == 3    \* children of an element handed to id_and_revision_extractor
MaxEmbedded == 2    \* children of the top-level element of an imported document
MaxCalls == 2       \* xml_import calls on one importer instance

----------------------------------------------------------------------------
(* Strings as character sequences *)

None == << >>
Some(x) == <<x>>
IsNone(o) == Len(o) = 0
Val(o) == o[1]

Digits == {"0", "1", "2", "3", "4", "5", "6", "7", "8", "9"}

DigitVal(c) ==
    CASE c = "0" -> 0 [] c = "1" -> 1 [] c = "2" -> 2 [] c = "3" -> 3
      [] c = "4" -> 4 [] c = "5" -> 5 [] c = "6" -> 6 [] c = "7" -> 7
      [] c = "8" -> 8 [] c = "9" -> 9

\* s[i] or "" past the end, so that a test on the next character is total
At(s, i) == IF i >= 1 /\ i <= Len(s) THEN s[i] ELSE ""

\* s[i .. j-1]
Slice(s, i, j) == IF j <= i THEN << >> ELSE SubSeq(s, i, j - 1)

\* position of the first occurrence of character c in s at or after i, or Len(s)+1
RECURSIVE Find(_, _, _)
Find(s, c, i) ==
    IF i > Len(s) THEN Len(s) + 1
    ELSE IF s[i] = c THEN i
    ELSE Find(s, c, i + 1)

\* Python's s.split(c): the pieces between the occurrences of c, always at
\* least one piece
RECURSIVE Split(_, _)
Split(s, c) ==
    LET k == Find(s, c, 1)
    IN  IF k > Len(s) THEN <<s>>
        ELSE <<Slice(s, 1, k)>> \o Split(Slice(s, k + 1, Len(s) + 1), c)

\* Python's "c in s" for a one-character c
Contains(s, c) == Find(s, c, 1) <= Len(s)

\* does s carry t at position i
HasAt(s, t, i) ==
    /\ i + Len(t) - 1 <= Len(s)
    /\ \A k \in 1..Len(t) : s[i + k - 1] = t[k]

\* Python's "t in s" for a string t
ContainsStr(s, t) == \E i \in 1..(Len(s) + 1) : HasAt(s, t, i)

\* str(None), as the %s conversion of a missing attribute renders it
STR_NONE == <<"N", "o", "n", "e">>

----------------------------------------------------------------------------
(* django.utils.dateparse.parse_datetime and django.utils.timezone *)

\* number of consecutive digits of s from position i on, at most max
RECURSIVE Run(_, _, _)
Run(s, i, max) ==
    IF max = 0 \/ At(s, i) \notin Digits THEN 0
    ELSE 1 + Run(s, i + 1, max - 1)

\* int(s[i .. i+n-1])
RECURSIVE Num(_, _, _)
Num(s, i, n) ==
    IF n = 0 THEN 0
    ELSE 10 * Num(s, i, n - 1) + DigitVal(s[i + n - 1])

RECURSIVE Pow10(_)
Pow10(n) == IF n = 0 THEN 1 ELSE 10 * Pow10(n - 1)

IsLeap(y) == (y % 4 = 0 /\ y % 100 # 0) \/ y % 400 = 0

DaysInMonth(y, m) ==
    IF m = 2 THEN (IF IsLeap(y) THEN 29 ELSE 28)
    ELSE IF m \in {4, 6, 9, 11} THEN 30 ELSE 31

\* datetime.datetime(**kw) accepts exactly these field values
ValidFields(y, mo, d, h, mi, sec) ==
    /\ y >= 1
    /\ mo \in 1..12
    /\ d >= 1 /\ d <= DaysInMonth(y, mo)
    /\ h <= 23 /\ mi <= 59 /\ sec <= 59

\* The outcome of parse_datetime(value): "none" when the text does not match
\* datetime_re, "error" when it matches and the fields are no date-time
\* (ValueError), otherwise "ok" with the datetime; tzinfo is None for a text
\* without zone designator and the offset in minutes otherwise.  The
\* pattern is matched group by group, f holding the fields read so far and
\* p the position of the next character:
\*   (?P<year>\d{4})-(?P<month>\d{1,2})-(?P<day>\d{1,2})
\*   [T ](?P<hour>\d{1,2}):(?P<minute>\d{1,2})
\*   (?::(?P<second>\d{1,2})(?:\.(?P<microsecond>\d{1,6})\d{0,6})?)?
\*   (?P<tzinfo>Z|[+-]\d{2}:\d{2})?$
NoMatch == [kind |-> "none"]

\* datetime.datetime(**kw) with the fields f and the tzinfo tz
BuildDatetime(f, tz) ==
    IF ~ValidFields(f.year, f.month, f.day, f.hour, f.minute, f.second)
    THEN [kind |-> "error"]
    ELSE [kind |-> "ok",
          dt |-> [year |-> f.year, month |-> f.month, day |-> f.day,
                  hour |-> f.hour, minute |-> f.minute, second |-> f.second,
                  microsecond |-> f.microsecond, tzinfo |-> tz]]

\* 60 * int(tzinfo[1:3]) + int(tzinfo[-2:]), negated for '-'
ZoneOffset(value, p) ==
    IF At(value, p) = "-"
    THEN 0 - (60 * Num(value, p + 1, 2) + Num(value, p + 4, 2))
    ELSE 60 * Num(value, p + 1, 2) + Num(value, p + 4, 2)

ParseZone(value, f, p) ==
    IF p = Len(value) + 1 THEN BuildDatetime(f, None)
    ELSE IF p = Len(value) /\ At(value, p) = "Z" THEN BuildDatetime(f, Some(0))
    ELSE IF /\ p + 5 = Len(value)
            /\ At(value, p) \in {"+", "-"}
            /\ Run(value, p + 1, 2) = 2
            /\ At(value, p + 3) = ":"
            /\ Run(value, p + 4, 2) = 2
    THEN BuildDatetime(f, Some(ZoneOffset(value, p)))
    ELSE NoMatch

ParseMicrosecond(value, f, p) ==
    LET n == Run(value, p + 1, 6)
    IN  IF At(value, p) = "." /\ n >= 1
        THEN ParseZone(value,
                       [f EXCEPT !.microsecond = Num(value, p + 1, n) * Pow10(6 - n)],
                       p + 1 + n + Run(value, p + 1 + n, 6))
        ELSE ParseZone(value, f, p)

ParseSecond(value, f, p) ==
    LET n == Run(value, p + 1, 2)
    IN  IF At(value, p) = ":" /\ n >= 1
        THEN ParseMicrosecond(value, [f EXCEPT !.second = Num(value, p + 1, n)],
                              p + 1 + n)
        ELSE ParseZone(value, f, p)

ParseMinute(value, f, p) ==
    LET n == Run(value, p, 2)
    IN  IF n >= 1
        THEN ParseSecond(value, [f EXCEPT !.minute = Num(value, p, n)], p + n)
        ELSE NoMatch

ParseHour(value, f, p) ==
    LET n == Run(value, p, 2)
    IN  IF n >= 1 /\ At(value, p + n) = ":"
        THEN ParseMinute(value, [f EXCEPT !.hour = Num(value, p, n)], p + n + 1)
        ELSE NoMatch

ParseDay(value, f, p) ==
    LET n == Run(value, p, 2)
    IN  IF n >= 1 /\ At(value, p + n) \in {"T", " "}
        THEN ParseHour(value, [f EXCEPT !.day = Num(value, p, n)], p + n + 1)
        ELSE NoMatch

ParseMonth(value, f, p) ==
    LET n == Run(value, p, 2)
    IN  IF n >= 1 /\ At(value, p + n) = "-"
        THEN ParseDay(value, [f EXCEPT !.month = Num(value, p, n)], p + n + 1)
        ELSE NoMatch

parse_datetime(value) ==
    IF Run(value, 1, 4) = 4 /\ At(value, 5) = "-"
    THEN ParseMonth(value,
                    [year |-> Num(value, 1, 4), month |-> 0, day |-> 0,
                     hour |-> 0, minute |-> 0, second |-> 0, microsecond |-> 0],
                    6)
    ELSE NoMatch

\* timezone.is_aware(value)
is_aware(dt) == ~IsNone(dt.tzinfo)

\* make_aware without the timezone.utc argument: the value is taken to be
\* in the current time zone of the settings, here one hour east of UTC
make_aware_utc_CurrentZone(dt) == [dt EXCEPT !.tzinfo = Some(60)]

\* timezone.make_aware(value, timezone.utc): the same fields, offset 0
make_aware_utc(dt) == [dt EXCEPT !.tzinfo = Some(0)]

\* days from 1970-01-01 to the civil date y-m-d
DaysFromCivil(y, m, d) ==
    LET yy  == IF m <= 2 THEN y - 1 ELSE y
        era == yy \div 400
        yoe == yy - era * 400
        mp  == IF m > 2 THEN m - 3 ELSE m + 9
        doy == (153 * mp + 2) \div 5 + d - 1
        doe == yoe * 365 + yoe \div 4 - yoe \div 100 + doy
    IN  era * 146097 + doe - 719468

\* The instant an aware datetime denotes: <<seconds since 1970-01-01T00:00Z,
\* microsecond>>.  Two aware datetimes are equal in Python exactly when their
\* instants are.
Instant(dt) ==
    << DaysFromCivil(dt.year, dt.month, dt.day) * 86400
         + dt.hour * 3600 + (dt.minute - Val(dt.tzinfo)) * 60 + dt.second,
       dt.microsecond >>

----------------------------------------------------------------------------
(* XML nodes, as the libxml2 bindings present them to the hooks: a name,   *)
(* attributes in document order, text content, children in document order  *)
(* and the key under which the host importer registers the node's          *)
(* namespace (None when the node declares none).                           *)

Node(name, attrs, content, children, ns) ==
    [name |-> name, attributes |-> attrs, content |-> content,
     children |-> children, ns |-> ns]

Leaf(name, attrs, content) == Node(name, attrs, content, << >>, None)

\* dingos.core.xml_utils.extract_attributes(node, prefix_key_char=prefix):
\* the node's attributes as a dictionary, here a sequence of <<key, value>>
\* with distinct keys
extract_attributes(node) == node.attributes

HasKey(d, k) == \E i \in 1..Len(d) : d[i][1] = k

\* d.get(k): Some(value) or None
Get(d, k) ==
    IF HasKey(d, k)
    THEN Some(d[CHOOSE i \in 1..Len(d) : d[i][1] = k][2])
    ELSE None

\* '%s' % v for a string or None
Str(o) == IF IsNone(o) THEN STR_NONE ELSE Val(o)

CSIRT == <<"c", "s", "i", "r", "t", ".", "e", "x", "a", "m", "p", "l", "e", ".", "c", "o", "m">>
ID_908711 == <<"9", "0", "8", "7", "1", "1">>
CSIRT_908711 == <<"c", "s", "i", "r", "t", ".", "e", "x", "a", "m", "p", "l", "e", ".", "c", "o", "m", ":", "9", "0", "8", "7", "1", "1">>
TS_EXAMPLE == <<"2", "0", "0", "6", "-", "0", "6", "-", "0", "8", "T", "0", "5", ":", "4", "4", ":", "5", "3", "-", "0", "5", ":", "0", "0">>
TS_NAIVE == <<"2", "0", "0", "6", "-", "0", "6", "-", "0", "8", "T", "0", "5", ":", "4", "4", ":", "5", "3">>
TS_ZULU == <<"2", "0", "0", "7", "-", "0", "2", "-", "2", "8", " ", "2", "3", ":", "5", "9", "Z">>
TS_EAST == <<"2", "0", "0", "8", "-", "0", "3", "-", "0", "1", "T", "0", "0", ":", "3", "0", ":", "1", "5", ".", "5", "+", "0", "1", ":", "0", "0">>
TS_WORDS == <<"y", "e", "s", "t", "e", "r", "d", "a", "y">>
TS_MONTH13 == <<"2", "0", "0", "6", "-", "1", "3", "-", "0", "8", "T", "0", "5", ":", "4", "4", ":", "5", "3">>
CERT_B == <<"b">>
ID_7 == <<"7">>

IncidentID_A  == Leaf("IncidentID", <<<<"name", CSIRT>>>>, ID_908711)
IncidentID_B  == Leaf("IncidentID", <<<<"name", CERT_B>>>>, ID_7)
IncidentID_NoName == Leaf("IncidentID", << >>, ID_7)
ReportTime_Example == Leaf("ReportTime", << >>, TS_EXAMPLE)
ReportTime_Naive == Leaf("ReportTime", << >>, TS_NAIVE)
ReportTime_Zulu == Leaf("ReportTime", << >>, TS_ZULU)
ReportTime_East == Leaf("ReportTime", << >>, TS_EAST)
ReportTime_Words == Leaf("ReportTime", << >>, TS_WORDS)
ReportTime_Month13 == Leaf("ReportTime", << >>, TS_MONTH13)
Description == Leaf("Description", << >>, << >>)
TextNode == Leaf("text", << >>, << >>)

----------------------------------------------------------------------------
(* iodef_Import.id_and_revision_extractor *)

\* ReportTimeBranch with make_aware applied to every parsed value, which
\* discards the offset the text carries
ReportTimeBranch_AlwaysMakeAware(child) ==
    LET naive == parse_datetime(child.content)
    IN  IF naive.kind # "ok" THEN [raised |-> TRUE]
        ELSE [raised |-> FALSE, aware |-> make_aware_utc(naive.dt)]

\* the body of the 'elif child.name == "ReportTime"' branch: the aware
\* timestamp, or an exception (parse_datetime raising ValueError, or
\* is_aware reading .tzinfo of the None that parse_datetime returns for a
\* text that is no date-time)
ReportTimeBranch(child) ==
    LET naive == parse_datetime(child.content)
    IN  IF naive.kind # "ok" THEN [raised |-> TRUE]
        ELSE [raised |-> FALSE,
              aware |-> IF ~is_aware(naive.dt) THEN make_aware_utc(naive.dt)
                        ELSE naive.dt]

\* the branch for an IncidentID child: '%s:%s' % (name attribute, content)
IncidentIDBranch(child) ==
    Str(Get(extract_attributes(child), "name")) \o <<":">> \o child.content

\* the while loop over xml_elt.children, from child number i on
RECURSIVE ExtractLoop(_, _, _, _, _)
ExtractLoop(children, i, result, found_id, found_ts) ==
    IF i > Len(children) THEN result
    ELSE
      LET child == children[i]
      IN  IF child.name = "IncidentID" THEN
            LET r == [result EXCEPT !.id = Some(IncidentIDBranch(child))]
            IN  IF found_ts THEN r
                ELSE ExtractLoop(children, i + 1, r, TRUE, found_ts)
          ELSE IF child.name = "ReportTime" THEN
            LET b == ReportTimeBranch(child)
            IN  IF b.raised THEN [result EXCEPT !.raised = TRUE]
                ELSE
                  LET r == [result EXCEPT !.timestamp = Some(b.aware)]
                  IN  IF found_id THEN r
                      ELSE ExtractLoop(children, i + 1, r, found_id, TRUE)
          ELSE IF found_id /\ found_ts THEN result
          ELSE ExtractLoop(children, i + 1, result, found_id, found_ts)

\* The returned dictionary {'id': ..., 'timestamp': ...}; raised is TRUE when
\* the call ends in an exception instead of returning.
id_and_revision_extractor(elt) ==
    LET result == [id |-> None, timestamp |-> None, raised |-> FALSE]
    IN  IF ~(elt.name = "Incident") THEN result
        ELSE ExtractLoop(elt.children, 1, result, FALSE, FALSE)

----------------------------------------------------------------------------
(* iodef_Import.embedding_pred and iodef_Import.transformer *)

\* embedding_pred extracting every child of the top-level element
embedding_pred_ChildOfDocument(parent, child, ns_mapping) ==
    IF parent.name = "IODEF-Document" THEN Some(child.name) ELSE None

\* The hook returns a label (the child's name) or False; the result is
\* modelled as an optional label, None standing for False.
embedding_pred(parent, child, ns_mapping) ==
    LET values == extract_attributes(parent)
    IN  IF child.name = "Incident" THEN Some(child.name) ELSE None

transformer(elt_name, contents) == <<elt_name, contents>>

----------------------------------------------------------------------------
(* Namespaces *)

DINGOS_NAMESPACE_URI == <<"d", "i", "n", "g", "o", "s", ":", "n", "s">>
DINGOS_DEFAULT_ID_NAMESPACE_URI == <<"d", "i", "n", "g", "o", "s", ":", "i", "d", "-", "n", "s">>
DINGOS_GENERIC_FAMILY_NAME == <<"d", "i", "n", "g", "o", "s", ":", "g", "e", "n", "e", "r", "i", "c">>

URN_PREFIX == <<"u", "r", "n", ":", "i", "e", "t", "f", ":", "p", "a", "r", "a", "m", "s", ":", "x", "m", "l", ":", "n", "s", ":">>
IODEF == <<"i", "o", "d", "e", "f">>
EMPTY_STR == << >>

\* The namespace URIs a document may declare, by the key under which the
\* host importer registers them in ns_mapping.
NsUris == <<
    <<"u", "r", "n", ":", "i", "e", "t", "f", ":", "p", "a", "r", "a", "m", "s", ":", "x", "m", "l", ":", "n", "s", ":", "i", "o", "d", "e", "f", "-", "1", ".", "0">>,
    <<"u", "r", "n", ":", "i", "e", "t", "f", ":", "p", "a", "r", "a", "m", "s", ":", "x", "m", "l", ":", "n", "s", ":", "i", "o", "d", "e", "f", "-", "2", ".", "0">>,
    <<"h", "t", "t", "p", ":", "/", "/", "e", "x", "a", "m", "p", "l", "e", ".", "c", "o", "m", "/", "n", "s">>,
    <<"u", "r", "n", ":", "i", "e", "t", "f", ":", "p", "a", "r", "a", "m", "s", ":", "x", "m", "l", ":", "n", "s", ":", "i", "o", "d", "e", "f", "-", "s", "c", "i", "-", "1", ".", "0">>,
    <<"u", "r", "n", ":", "i", "e", "t", "f", ":", "p", "a", "r", "a", "m", "s", ":", "x", "m", "l", ":", "n", "s", ":", "-", "1", ".", "0">>,
    <<"u", "r", "n", ":", "i", "e", "t", "f", ":", "p", "a", "r", "a", "m", "s", ":", "x", "m", "l", ":", "n", "s", ":", "i", "o", "d", "e", "f", "-">>,
    <<"u", "r", "n", ":", "i", "e", "t", "f", ":", "p", "a", "r", "a", "m", "s", ":", "x", "m", "l", ":", "n", "s", ":", "i", "o", "d", "e", "f">>,
    <<"u", "r", "n", ":", "i", "e", "t", "f", ":", "p", "a", "r", "a", "m", "s", ":", "x", "m", "l", ":", "n", "s", ":", "x", "-", "1", "-", "2">> >>

\* NsGroups with the family_ns group closed after the revision
NsGroups_KeepRevision(text, i, dash) ==
    [family_ns  |-> Slice(text, i, Len(text) + 1),
     family     |-> Slice(text, i + Len(URN_PREFIX), dash),
     family_tag |-> Slice(text, i + Len(URN_PREFIX), dash),
     revision   |-> Slice(text, dash + 1, Len(text) + 1)]

\* the groups of a match that starts at position i and meets its '-' at dash
NsGroups(text, i, dash) ==
    [family_ns  |-> Slice(text, i, dash),
     family     |-> Slice(text, i + Len(URN_PREFIX), dash),
     family_tag |-> Slice(text, i + Len(URN_PREFIX), dash),
     revision   |-> Slice(text, dash + 1, Len(text) + 1)]

\* The one pattern of RE_LIST_NS_TYPE_FROM_NS_URL searched in text from
\* position i on:
\*   (?P<family_ns>urn:ietf:params:xml:ns:(?P<family>(?P<family_tag>[^-]*)))-(?P<revision>.*)
\* The leftmost occurrence of the prefix that has a '-' after it matches;
\* [^-]* runs to the first '-' and .* takes the rest.  None when nothing
\* matches, else the group dictionary.
RECURSIVE RE_NS_TYPE_FROM_NS_URL(_, _)
RE_NS_TYPE_FROM_NS_URL(text, i) ==
    IF i > Len(text) THEN None
    ELSE IF /\ HasAt(text, URN_PREFIX, i)
            /\ Find(text, "-", i + Len(URN_PREFIX)) <= Len(text)
    THEN Some(NsGroups(text, i, Find(text, "-", i + Len(URN_PREFIX))))
    ELSE RE_NS_TYPE_FROM_NS_URL(text, i + 1)

\* dingos.core.utilities.search_by_re_list(re_list, text) with the
\* importer's one-element pattern list
search_by_re_list(text) == RE_NS_TYPE_FROM_NS_URL(text, 1)

\* The dictionary key for a node's '@@ns' entry; a node without the entry is
\* looked up under the key None, which is key 0 here.
NsKey(ns) == IF IsNone(ns) THEN 0 ELSE Val(ns)

\* namespace_dict.get(key): Some(uri) or None
DictGet(d, k) == IF k \in DOMAIN d THEN Some(d[k]) ELSE None

----------------------------------------------------------------------------
(* iodef_Import.__init__ *)

\* timezone.now() when the clock stands at tick n: an aware UTC datetime
ClockTime(n) ==
    [year |-> 2014, month |-> 1, day |-> 1, hour |-> 0, minute |-> 0,
     second |-> n, microsecond |-> 0, tzinfo |-> Some(0)]

InitSelf(clock) ==
    [namespace_dict |-> (0 :> DINGOS_NAMESPACE_URI),
     create_timestamp |-> ClockTime(clock),
     identifier_ns_uri |-> DINGOS_DEFAULT_ID_NAMESPACE_URI,
     iobject_family_name |-> IODEF,
     iobject_family_revision_name |-> EMPTY_STR]

----------------------------------------------------------------------------
(* MantisImporter.xml_import, the host's generic XML import, as far as the *)
(* importer relies on it: it calls id_and_revision_extractor for the       *)
(* top-level node and for every node embedding_pred tells it to extract,   *)
(* registers the namespaces it meets in ns_mapping, and returns the        *)
(* dictionary described in the comment of iodef_Import.xml_import.         *)

\* the positions of the children of parent that are extracted, in document order
RECURSIVE EmbeddedAt(_, _, _)
EmbeddedAt(parent, ns_mapping, i) ==
    IF i > Len(parent.children) THEN << >>
    ELSE (IF IsNone(embedding_pred(parent, parent.children[i], ns_mapping))
          THEN << >> ELSE <<i>>)
         \o EmbeddedAt(parent, ns_mapping, i + 1)

\* the dictionary representation of a node: its '@@ns' entry and the node
\* itself without the children that were extracted
DictRepr(node, ns_mapping) ==
    LET out == EmbeddedAt(node, ns_mapping, 1)
        keep == {i \in 1..Len(node.children) :
                   \A k \in 1..Len(out) : out[k] # i}
        RECURSIVE Inline(_)
        Inline(i) == IF i > Len(node.children) THEN << >>
                     ELSE (IF i \in keep THEN <<node.children[i]>> ELSE << >>)
                          \o Inline(i + 1)
    IN  [ns |-> node.ns, name |-> node.name, attributes |-> node.attributes,
         children |-> Inline(1)]

\* the namespace keys a document uses
NsKeysOf(doc) ==
    {NsKey(doc.ns)} \cup {NsKey(doc.children[i].ns) : i \in 1..Len(doc.children)}

\* ns_mapping after the import: the entries it had and one for every
\* namespace of the document
NsMapping(doc, namespace_dict) ==
    [k \in (DOMAIN namespace_dict) \cup NsKeysOf(doc) |->
        IF k \in DOMAIN namespace_dict THEN namespace_dict[k] ELSE NsUris[k]]

\* the entry of embedded_objects for an extracted child
EmbeddedObject(child, ns_mapping) ==
    [id_and_rev_info |-> id_and_revision_extractor(child),
     elt_name |-> transformer(child.name, child)[1],
     dict_repr |-> DictRepr(child, ns_mapping)]

\* the returned dictionary, given the extracted children and what the
\* extractor returned for the top-level node; raised is TRUE when one of the
\* extractor calls ended in an exception, which the host does not catch
ImportResult(doc, ns_mapping, top, embedded) ==
    [raised |-> top.raised
                  \/ \E k \in 1..Len(embedded) : embedded[k].id_and_rev_info.raised,
     ns_mapping |-> ns_mapping,
     id_and_rev_info |-> top,
     elt_name |-> transformer(doc.name, doc)[1],
     dict_repr |-> DictRepr(doc, ns_mapping),
     embedded_objects |-> embedded]

EmbeddedObjects(doc, ns_mapping, at) ==
    [k \in 1..Len(at) |-> EmbeddedObject(doc.children[at[k]], ns_mapping)]

ImportWith(doc, ns_mapping) ==
    ImportResult(doc, ns_mapping, id_and_revision_extractor(doc),
                 EmbeddedObjects(doc, ns_mapping, EmbeddedAt(doc, ns_mapping, 1)))

MantisImporter_xml_import(doc, namespace_dict) ==
    ImportWith(doc, NsMapping(doc, namespace_dict))

----------------------------------------------------------------------------
(* iodef_Import.xml_import *)

\* CreateArgs passing the creation time as the record's timestamp too
CreateArgs_TimestampIsCreateTime(slf, rec, entry, ts, type_ns_uri, type_rev, parts, markings) ==
    [rec |-> rec,
     iobject_family_name |-> slf.iobject_family_name,
     iobject_family_revision_name |-> slf.iobject_family_revision_name,
     iobject_type_name |-> entry.elt_name,
     iobject_type_namespace_uri |-> type_ns_uri,
     iobject_type_revision_name |-> type_rev,
     iobject_data |-> entry.elt_dict,
     uid |-> parts[1],
     identifier_ns_uri |-> parts[2],
     timestamp |-> slf.create_timestamp,
     create_timestamp |-> slf.create_timestamp,
     markings |-> markings,
     namespace_dict |-> slf.namespace_dict]

\* the keyword arguments of one MantisImporter.create_iobject call; rec is
\* the position in pending_stack of the record handed over
CreateArgs(slf, rec, entry, ts, type_ns_uri, type_rev, parts, markings) ==
    [rec |-> rec,
     iobject_family_name |-> slf.iobject_family_name,
     iobject_family_revision_name |-> slf.iobject_family_revision_name,
     iobject_type_name |-> entry.elt_name,
     iobject_type_namespace_uri |-> type_ns_uri,
     iobject_type_revision_name |-> type_rev,
     iobject_data |-> entry.elt_dict,
     uid |-> parts[1],
     identifier_ns_uri |-> parts[2],
     timestamp |-> ts,
     create_timestamp |-> slf.create_timestamp,
     markings |-> markings,
     namespace_dict |-> slf.namespace_dict]

\* "if not id_and_rev_info['id']": the id is None or the empty string
NoId(info) == IsNone(info.id) \/ Val(info.id) = EMPTY_STR

\* the loop "for (id_and_rev_info, elt_name, elt_dict) in pending_stack",
\* from entry i on; acc collects the create_iobject calls made so far
RECURSIVE ImportLoop(_, _, _, _, _, _)

\* LoopBody leaving the loop at a record without id ('break' for 'continue')
LoopBody_BreakOnNoId(slf, pending, i, default_ns, markings, acc, ns_info) ==
    LET entry == pending[i]
        info == entry.id_and_rev_info
        ts == IF ~IsNone(info.timestamp) THEN Val(info.timestamp)
              ELSE slf.create_timestamp
        type_rev == IF IsNone(ns_info) THEN None
                    ELSE Some(Val(ns_info).revision)
        own_ns == DictGet(slf.namespace_dict, NsKey(entry.elt_dict.ns))
        type_ns_uri ==
            IF ~IsNone(ns_info) THEN Val(ns_info).family_ns
            ELSE IF IsNone(own_ns) THEN DINGOS_GENERIC_FAMILY_NAME
            ELSE Val(own_ns)
        parts == Split(Val(info.id), ":")
    IN  IF NoId(info)
        THEN [created |-> acc, raised |-> FALSE]
        ELSE ImportLoop(slf, pending, i + 1, default_ns, markings,
                        Append(acc, CreateArgs(slf, i, entry, ts, type_ns_uri,
                                               type_rev, parts, markings)))

\* the body of the loop for entry i, ns_info being what search_by_re_list
\* returned for default_ns
LoopBody(slf, pending, i, default_ns, markings, acc, ns_info) ==
    LET entry == pending[i]
        info == entry.id_and_rev_info
        ts == IF ~IsNone(info.timestamp) THEN Val(info.timestamp)
              ELSE slf.create_timestamp
        from_ns == IF IsNone(ns_info) THEN None
                   ELSE Some(Val(ns_info).family_ns)
        type_rev == IF IsNone(ns_info) THEN None
                    ELSE Some(Val(ns_info).revision)
        own_ns == DictGet(slf.namespace_dict, NsKey(entry.elt_dict.ns))
        type_ns_uri ==
            IF ~IsNone(from_ns) /\ Val(from_ns) # EMPTY_STR THEN Val(from_ns)
            ELSE IF IsNone(own_ns) THEN DINGOS_GENERIC_FAMILY_NAME
            ELSE Val(own_ns)
        parts == Split(Val(info.id), ":")
    IN  IF NoId(info)
        THEN ImportLoop(slf, pending, i + 1, default_ns, markings, acc)
        ELSE IF Len(parts) < 2
        THEN [created |-> acc, raised |-> TRUE]
        ELSE ImportLoop(slf, pending, i + 1, default_ns, markings,
                        Append(acc, CreateArgs(slf, i, entry, ts, type_ns_uri,
                                               type_rev, parts, markings)))

\* ImportLoop resolving the namespace of each record itself instead of the
\* namespace of the top-level element
ImportLoop_SearchOwnNs(slf, pending, i, default_ns, markings, acc) ==
    IF i > Len(pending) THEN [created |-> acc, raised |-> FALSE]
    ELSE LoopBody(slf, pending, i, default_ns, markings, acc,
                  search_by_re_list(
                      Val(DictGet(slf.namespace_dict,
                                  NsKey(pending[i].elt_dict.ns)))))

ImportLoop(slf, pending, i, default_ns, markings, acc) ==
    IF i > Len(pending) THEN [created |-> acc, raised |-> FALSE]
    ELSE LoopBody(slf, pending, i, default_ns, markings, acc,
                  search_by_re_list(default_ns))

\* xml_import without the call of __init__
ClearState_Skip(slf, clock) == slf

\* "self.__init__()" at the head of xml_import
ClearState(slf, clock) == InitSelf(clock)

\* "if not markings: markings = []"
DefaultMarkings(markings) ==
    IF IsNone(markings) \/ Val(markings) = << >> THEN << >> ELSE Val(markings)

\* "if identifier_ns_uri: self.identifier_ns_uri = identifier_ns_uri"
SetIdentifierNs(slf, identifier_ns_uri) ==
    IF ~IsNone(identifier_ns_uri) /\ Val(identifier_ns_uri) # EMPTY_STR
    THEN [slf EXCEPT !.identifier_ns_uri = Val(identifier_ns_uri)]
    ELSE slf

\* PendingStack with the embedded objects taken from the end of the list, as
\* a stack that is popped would yield them
PendingStack_EmbeddedReversed(import_result) ==
    <<[id_and_rev_info |-> import_result.id_and_rev_info,
       elt_name |-> import_result.elt_name,
       elt_dict |-> import_result.dict_repr]>>
    \o [k \in 1..Len(import_result.embedded_objects) |->
          LET e == import_result.embedded_objects[
                       Len(import_result.embedded_objects) + 1 - k]
          IN  [id_and_rev_info |-> e.id_and_rev_info,
               elt_name |-> e.elt_name,
               elt_dict |-> e.dict_repr]]

\* "pending_stack = [(id_and_rev_info, elt_name, elt_dict)]" and the loop
\* appending the embedded objects
PendingStack(import_result) ==
    <<[id_and_rev_info |-> import_result.id_and_rev_info,
       elt_name |-> import_result.elt_name,
       elt_dict |-> import_result.dict_repr]>>
    \o [k \in 1..Len(import_result.embedded_objects) |->
          [id_and_rev_info |-> import_result.embedded_objects[k].id_and_rev_info,
           elt_name |-> import_result.embedded_objects[k].elt_name,
           elt_dict |-> import_result.embedded_objects[k].dict_repr]]

\* SetFamily falling back to the generic family name when nothing matches
SetFamily_GenericOnNoMatch(slf, ns_info) ==
    IF IsNone(ns_info)
    THEN [slf EXCEPT !.iobject_family_name = DINGOS_GENERIC_FAMILY_NAME]
    ELSE [slf EXCEPT !.iobject_family_name = Val(ns_info).family,
                     !.iobject_family_revision_name = Val(ns_info).revision]

\* "if ns_info: ..." after the first search_by_re_list
SetFamily(slf, ns_info) ==
    IF IsNone(ns_info) THEN slf
    ELSE [slf EXCEPT !.iobject_family_name = Val(ns_info).family,
                     !.iobject_family_revision_name = Val(ns_info).revision]

\* the end of xml_import: what the call leaves behind once the loop has run
ImportOutcome(slf, pending, loop) ==
    [self |-> slf, pending_stack |-> pending, created |-> loop.created,
     raised |-> loop.raised]

\* xml_import from "default_ns = ..." on, import_result being what the host
\* returned and default_ns the namespace looked up for the top-level
\* element; search_by_re_list raises when that lookup yields None
AfterImport(slf, import_result, default_ns, markings) ==
    IF import_result.raised \/ IsNone(default_ns)
    THEN [self |-> slf, pending_stack |-> << >>, created |-> << >>,
          raised |-> TRUE]
    ELSE ImportOutcome(SetFamily(slf, search_by_re_list(Val(default_ns))),
                       PendingStack(import_result),
                       ImportLoop(SetFamily(slf, search_by_re_list(Val(default_ns))),
                                  PendingStack(import_result), 1,
                                  Val(default_ns), markings, << >>))

\* xml_import from the call of the host importer on; the host registers the
\* document's namespaces in self.namespace_dict
ImportDocument(slf, import_result, markings) ==
    AfterImport([slf EXCEPT !.namespace_dict = import_result.ns_mapping],
                import_result,
                DictGet(import_result.ns_mapping,
                        NsKey(import_result.dict_repr.ns)),
                markings)

\* One call xml_import(filepath, xml_content, markings, identifier_ns_uri) on
\* the instance slf, the document being doc and the clock standing at clock:
\* the instance afterwards, the pending stack, the create_iobject calls made
\* and whether the call ended in an exception.
xml_import(slf, clock, doc, args) ==
    ImportDocument(SetIdentifierNs(ClearState(slf, clock), args.identifier_ns_uri),
                   MantisImporter_xml_import(
                       doc,
                       SetIdentifierNs(ClearState(slf, clock),
                                       args.identifier_ns_uri).namespace_dict),
                   DefaultMarkings(args.markings))

----------------------------------------------------------------------------
(* The hooks for the 'from_dict' method of the host's InfoObject *)

PORTLIST == <<"P", "o", "r", "t", "l", "i", "s", "t">>
DTYPE == <<"d", "t", "y", "p", "e">>
IODEF_DT_NAMESPACE_URI == <<"u", "r", "n", ":", "i", "e", "t", "f", ":", "p", "a", "r", "a", "m", "s", ":", "x", "m", "l", ":", "n", "s", ":", "i", "o", "d", "e", "f", "-", "1", ".", "0">>
IODEF_DT_NAMESPACE_NAME == <<"I", "O", "D", "E", "F">>

\* the predicate of the one pair of fact_handler_list():
\*   lambda fact, attr_info: fact['term'].split('/')[-1] == "Portlist"
portlist_predicate(fact, attr_info) ==
    LET segments == Split(fact.term, "/")
    IN  segments[Len(segments)] = PORTLIST

\* the handler leaving the value in one piece
iodef_portlist_fact_handler_NoSplit(fact, attr_info, add_fact_kargs) ==
    [keep |-> TRUE,
     add_fact_kargs |-> [add_fact_kargs EXCEPT !.values = <<fact.value>>]]

\* iodef_portlist_fact_handler: the value handed back (True) and the
\* add_fact_kargs it leaves behind
iodef_portlist_fact_handler(fact, attr_info, add_fact_kargs) ==
    [keep |-> TRUE,
     add_fact_kargs |-> [add_fact_kargs EXCEPT !.values = Split(fact.value, ",")]]

\* attr_ignore_predicate without the test for '@'
attr_ignore_predicate_DtypeOnly(fact_dict) ==
    IF ContainsStr(fact_dict.attribute, DTYPE) THEN TRUE ELSE FALSE

\* attr_ignore_predicate(fact_dict), called for facts of XML attributes
attr_ignore_predicate(fact_dict) ==
    IF Contains(fact_dict.attribute, "@") THEN TRUE
    ELSE IF ContainsStr(fact_dict.attribute, DTYPE) THEN TRUE
    ELSE FALSE

\* datatype_extractor taking an empty dtype attribute for a missing one
\* ("if attr_info.get('dtype')")
datatype_extractor_NonEmptyDtype(fact, attr_info, namespace_mapping, add_fact_kargs) ==
    IF HasKey(attr_info, DTYPE) /\ Get(attr_info, DTYPE) # Some(EMPTY_STR)
    THEN [found |-> TRUE,
          add_fact_kargs |->
              [add_fact_kargs EXCEPT
                 !.fact_dt_name = Get(attr_info, DTYPE),
                 !.fact_dt_namespace_uri = Some(IODEF_DT_NAMESPACE_URI),
                 !.fact_dt_namespace_name = Some(IODEF_DT_NAMESPACE_NAME)]]
    ELSE [found |-> FALSE, add_fact_kargs |-> add_fact_kargs]

\* datatype_extractor: the value handed back and the add_fact_kargs it
\* leaves behind
datatype_extractor(fact, attr_info, namespace_mapping, add_fact_kargs) ==
    IF HasKey(attr_info, DTYPE)
    THEN [found |-> TRUE,
          add_fact_kargs |->
              [add_fact_kargs EXCEPT
                 !.fact_dt_name = Get(attr_info, DTYPE),
                 !.fact_dt_namespace_uri = Some(IODEF_DT_NAMESPACE_URI),
                 !.fact_dt_namespace_name = Some(IODEF_DT_NAMESPACE_NAME)]]
    ELSE [found |-> FALSE, add_fact_kargs |-> add_fact_kargs]

\* The arguments with which the host would create the fact before any hook
\* has run: the fact's term, attribute and single value, no datatype.
InitialKargs(fact) ==
    [fact_dt_kind |-> "NO_VOCAB",
     fact_dt_name |-> None,
     fact_dt_namespace_name |-> None,
     fact_dt_namespace_uri |-> None,
     fact_term_name |-> fact.term,
     fact_term_attribute |-> fact.attribute,
     values |-> <<fact.value>>,
     node_id_name |-> fact.node_id]

\* What the host does with one fact, as the hook documentation describes
\* it: a fact of an XML attribute for which attr_ignore_predicate holds is
\* not created and no handler runs; otherwise the handlers whose predicate
\* holds run on add_fact_kargs, then the datatype extractor, and the fact is
\* created unless a handler returned False; handler_kargs is add_fact_kargs
\* as the datatype extractor received it.  is_attribute tells whether the
\* fact stems from an XML attribute (fact.attribute is then its key,
\* otherwise the empty string standing for False).
AddFactPipeline(fact, is_attribute, attr_info) ==
    LET k0 == InitialKargs(fact)
        selected == portlist_predicate(fact, attr_info)
        h == IF selected THEN iodef_portlist_fact_handler(fact, attr_info, k0)
             ELSE [keep |-> TRUE, add_fact_kargs |-> k0]
        dt == datatype_extractor(fact, attr_info, << >>, h.add_fact_kargs)
    IN  IF is_attribute /\ attr_ignore_predicate(fact)
        THEN [ignored |-> TRUE, handler_selected |-> FALSE, created |-> FALSE,
              datatype_found |-> FALSE, handler_kargs |-> k0,
              add_fact_kargs |-> k0]
        ELSE [ignored |-> FALSE, handler_selected |-> selected,
              created |-> h.keep, datatype_found |-> dt.found,
              handler_kargs |-> h.add_fact_kargs,
              add_fact_kargs |-> dt.add_fact_kargs]

----------------------------------------------------------------------------
(* The inputs of the model *)

\* all sequences over S of length at most n
SeqsUpTo(S, n) == UNION {[1..k -> S] : k \in 0..n}

MITIGATION == <<"m", "i", "t", "i", "g", "a", "t", "i", "o", "n">>
PURPOSE == <<<<"purpose", MITIGATION>>>>

\* children an Incident handed to id_and_revision_extractor may have
ChildKinds ==
    {IncidentID_A, IncidentID_B, IncidentID_NoName,
     ReportTime_Example, ReportTime_Naive, ReportTime_Zulu, ReportTime_East,
     ReportTime_Words, ReportTime_Month13, Description, TextNode}

Elements ==
    {Node(n, PURPOSE, << >>, ch, None) :
        n \in {"Incident", "IODEF-Document"},
        ch \in SeqsUpTo(ChildKinds, MaxChildren)}

\* children of the top-level element of an imported document
Incident_Full ==
    Node("Incident", PURPOSE, << >>,
         <<IncidentID_A, ReportTime_Example, Description>>, None)
Incident_NoId ==
    Node("Incident", PURPOSE, << >>, <<TextNode, ReportTime_Naive>>, None)
Incident_IdOnly ==
    Node("Incident", PURPOSE, << >>, <<IncidentID_B, Description>>, Some(2))
Incident_BadTime ==
    Node("Incident", PURPOSE, << >>, <<IncidentID_B, ReportTime_Words>>, None)
Contact_WithId ==
    Node("Contact", << >>, << >>, <<IncidentID_A, ReportTime_Zulu>>, None)

TopChildren ==
    {Incident_Full, Incident_NoId, Incident_IdOnly, Incident_BadTime,
     Contact_WithId}

Document(children, ns) == Node("IODEF-Document", << >>, << >>, children, ns)

Docs ==
    {Document(ch, ns) :
        ch \in SeqsUpTo(TopChildren, MaxEmbedded),
        ns \in {None, Some(1), Some(3)}}

\* documents of every namespace, for the namespace resolution
NsDocs ==
    {Document(ch, Some(k)) :
        ch \in SeqsUpTo({Incident_Full, Incident_IdOnly}, MaxEmbedded) \ {<< >>},
        k \in 1..Len(NsUris)}

\* documents of at most one child, for the calls that follow one another
ReuseDocs ==
    {Document(ch, ns) :
        ch \in {<< >>} \cup {<<c>> : c \in TopChildren},
        ns \in {None, Some(1), Some(2), Some(3)}}

ID_NS_OVERRIDE == <<"h", "t", "t", "p", ":", "/", "/", "c", "e", "r", "t", ".", "e", "x", "a", "m", "p", "l", "e", ".", "o", "r", "g">>
TLP_AMBER == <<"T", "L", "P", ":", "A", "M", "B", "E", "R">>

\* the markings and identifier_ns_uri arguments of an xml_import call
CallArgs ==
    {[markings |-> None, identifier_ns_uri |-> None],
     [markings |-> Some(<< >>), identifier_ns_uri |-> Some(EMPTY_STR)],
     [markings |-> Some(<<TLP_AMBER>>), identifier_ns_uri |-> Some(ID_NS_OVERRIDE)]}

FactTerms ==
    {<<"S", "e", "r", "v", "i", "c", "e", "/", "P", "o", "r", "t", "l", "i", "s", "t">>,
     <<"P", "o", "r", "t", "l", "i", "s", "t">>,
     <<"P", "o", "r", "t", "l", "i", "s", "t", "/", "P", "o", "r", "t">>,
     <<"S", "e", "r", "v", "i", "c", "e", "/", "P", "o", "r", "t", "l", "i", "s", "t", "s">>,
     <<"S", "e", "r", "v", "i", "c", "e", "/", "p", "o", "r", "t", "l", "i", "s", "t">>,
     <<"P", "o", "r", "t", "l", "i", "s", "t", "/">>,
     << >>}

FactValues ==
    {<<"6", "0", "5", "2", "4", ",", "6", "0", "5", "2", "6", ",", "6", "0", "5", "2", "7", ",", "6", "0", "5", "3", "1">>,
     <<"8", "0", ",", "4", "4", "3", ",", "8", "0", "8", "0">>,
     <<"8", "0">>, << >>, <<",">>, <<"1", ",", ",", "2">>}

\* attribute keys of attribute facts
AttributeKeys ==
    {<<"c", "a", "t", "e", "g", "o", "r", "y">>, <<"@", "n", "s">>, <<"d", "t", "y", "p", "e">>, <<"@", "@", "e", "m", "b", "e", "d", "d", "e", "d">>, <<"x", "@", "y">>, <<"e", "x", "t", "-", "d", "t", "y", "p", "e">>}

UINT == <<"i", "n", "t", "e", "g", "e", "r">>

AttrInfos ==
    {<< >>,
     <<<<DTYPE, UINT>>>>,
     <<<<<<"c", "a", "t", "e", "g", "o", "r", "y">>, UINT>>>>,
     <<<<<<"c", "a", "t", "e", "g", "o", "r", "y">>, UINT>>, <<DTYPE, EMPTY_STR>>>>}

NODE_ID == <<"N", "0", "0", "0", ":", "A", "0", "0", "0">>

\* the facts the host presents: text facts (attribute False) and attribute facts
FactInputs ==
    {[fact |-> [node_id |-> NODE_ID, term |-> tm, attribute |-> EMPTY_STR,
                value |-> v],
      is_attribute |-> FALSE, attr_info |-> ai] :
        tm \in FactTerms, v \in FactValues, ai \in AttrInfos}
    \cup
    {[fact |-> [node_id |-> NODE_ID, term |-> tm, attribute |-> k, value |-> v],
      is_attribute |-> TRUE, attr_info |-> ai] :
        tm \in FactTerms, v \in FactValues, ai \in AttrInfos, k \in AttributeKeys}

\* names of the elements the host presents to embedding_pred as child
ChildNames ==
    {"Incident", "incident", "Incidents", "IncidentID", "IODEF-Document",
     "Contact", "text", ""}

EmbedChildren ==
    {Node(n, a, << >>, ch, ns) :
        n \in ChildNames, a \in {<< >>, PURPOSE},
        ch \in {<< >>, <<IncidentID_A>>}, ns \in {None, Some(1)}}

EmbedParents ==
    {Document(<< >>, None), Document(<<Incident_Full>>, Some(1)),
     Incident_Full, Contact_WithId}

\* the namespace mappings the host passes along
NsMappings ==
    {(0 :> DINGOS_NAMESPACE_URI),
     (0 :> DINGOS_NAMESPACE_URI) @@ (1 :> NsUris[1]),
     (0 :> DINGOS_NAMESPACE_URI) @@ (1 :> NsUris[1]) @@ (3 :> NsUris[3])}

EmbedInputs ==
    {[parent |-> p, child |-> c, ns_mapping |-> m] :
        p \in EmbedParents, c \in EmbedChildren, m \in NsMappings}

----------------------------------------------------------------------------
(* The state machine *)

InitImport ==
    /\ self = InitSelf(0)
    /\ now = 1
    /\ ncalls = 0
    /\ call = None
    /\ pending_stack = << >>
    /\ created = << >>
    /\ raised = FALSE

Init ==
    /\ InitImport
    /\ xml_elt = None
    /\ extracted = None
    /\ fact_in = None
    /\ fact_out = None
    /\ embed_in = None
    /\ embed_out = None

\* one call of xml_import on the instance
XmlImport(doc, args) ==
    /\ ncalls < MaxCalls
    /\ \E r \in {xml_import(self, now, doc, args)} :
           /\ self' = r.self
           /\ pending_stack' = r.pending_stack
           /\ created' = r.created
           /\ raised' = r.raised
    /\ now' = now + 1
    /\ ncalls' = ncalls + 1
    /\ call' = Some([doc |-> doc, args |-> args])
    /\ UNCHANGED <<extractVars, factVars, embedVars>>

\* a fresh instance importing one document
Next == \E doc \in Docs, args \in CallArgs : ncalls = 0 /\ XmlImport(doc, args)

Spec == Init /\ [][Next]_vars

\* a fresh instance importing one document of any of the namespaces
NextNs == \E doc \in NsDocs, args \in CallArgs : ncalls = 0 /\ XmlImport(doc, args)

SpecNs == Init /\ [][NextNs]_vars

\* one instance importing several documents in turn
NextReuse == \E doc \in ReuseDocs, args \in CallArgs : XmlImport(doc, args)

SpecReuse == Init /\ [][NextReuse]_vars

\* a direct call of id_and_revision_extractor on an element
InitExtract ==
    /\ InitImport
    /\ xml_elt \in {Some(e) : e \in Elements}
    /\ extracted = None
    /\ fact_in = None
    /\ fact_out = None
    /\ embed_in = None
    /\ embed_out = None

Extract ==
    /\ IsNone(extracted)
    /\ extracted' = Some(id_and_revision_extractor(Val(xml_elt)))
    /\ UNCHANGED <<importVars, xml_elt, factVars, embedVars>>

SpecExtract == InitExtract /\ [][Extract]_vars

\* the host running the fact hooks on one fact
InitFact ==
    /\ InitImport
    /\ xml_elt = None
    /\ extracted = None
    /\ fact_in \in {Some(f) : f \in FactInputs}
    /\ fact_out = None
    /\ embed_in = None
    /\ embed_out = None

AddFact ==
    /\ IsNone(fact_out)
    /\ LET f == Val(fact_in)
       IN  fact_out' = Some(AddFactPipeline(f.fact, f.is_attribute, f.attr_info))
    /\ UNCHANGED <<importVars, extractVars, fact_in, embedVars>>

SpecFact == InitFact /\ [][AddFact]_vars

\* the host asking embedding_pred about one child
InitEmbed ==
    /\ InitImport
    /\ xml_elt = None
    /\ extracted = None
    /\ fact_in = None
    /\ fact_out = None
    /\ embed_in \in {Some(e) : e \in EmbedInputs}
    /\ embed_out = None

EmbeddingPred ==
    /\ IsNone(embed_out)
    /\ LET e == Val(embed_in)
       IN  embed_out' = Some(embedding_pred(e.parent, e.child, e.ns_mapping))
    /\ UNCHANGED <<importVars, extractVars, factVars, embed_in>>

SpecEmbed == InitEmbed /\ [][EmbeddingPred]_vars

----------------------------------------------------------------------------
(* Properties *)

\* the document and the arguments of the latest xml_import call
CallDoc == Val(call).doc
CallArg == Val(call).args

\* the create_iobject calls of the latest xml_import call that handed over
\* entry i of pending_stack
HandOffs(i) == {k \in 1..Len(created) : created[k].rec = i}

\* C1: in xml_import, a record of the pending stack (the top-level record
\* and the embedded records) whose id is absent is never handed to
\* create_iobject and does not stop the loop: every record with an id,
\* those after a record without id included, is handed to create_iobject
\* exactly once.
C1_SkipRecordWithoutId ==
    \A i \in 1..Len(pending_stack) :
        IF NoId(pending_stack[i].id_and_rev_info)
        THEN HandOffs(i) = {}
        ELSE Cardinality(HandOffs(i)) = 1

\* an embedded record without id is followed by a record with an id, which
\* was handed over
C1_Witness ==
    \E i, j \in 2..Len(pending_stack) :
        /\ i < j
        /\ NoId(pending_stack[i].id_and_rev_info)
        /\ ~NoId(pending_stack[j].id_and_rev_info)
        /\ HandOffs(j) # {}

\* the children of node that carry the name, in document order
ChildrenNamed(node, name) ==
    {i \in 1..Len(node.children) : node.children[i].name = name}

FirstNamed(node, name) ==
    node.children[CHOOSE i \in ChildrenNamed(node, name) :
                      \A j \in ChildrenNamed(node, name) : i <= j]

\* C2: for every Incident element, id_and_revision_extractor derives the id
\* from the first IncidentID child in document order and the timestamp from
\* the first ReportTime child in document order; a later child of the same
\* name never replaces a value already found.
C2_FirstMatchWins ==
    (/\ ~IsNone(extracted)
     /\ Val(xml_elt).name = "Incident"
     /\ ~Val(extracted).raised)
    => /\ Val(extracted).id =
            IF ChildrenNamed(Val(xml_elt), "IncidentID") = {} THEN None
            ELSE LET c == FirstNamed(Val(xml_elt), "IncidentID")
                 IN  Some(Str(Get(c.attributes, "name")) \o <<":">> \o c.content)
       /\ Val(extracted).timestamp =
            IF ChildrenNamed(Val(xml_elt), "ReportTime") = {} THEN None
            ELSE Some(ReportTimeBranch(FirstNamed(Val(xml_elt), "ReportTime")).aware)

\* C3: for every Incident whose IncidentID has name attribute N and text
\* content T, neither containing ':', xml_import hands the record to
\* create_iobject with identifier_ns_uri = N and uid = T.
C3_NameIsIdentifierNamespace ==
    \A k \in 1..Len(created) :
        LET e == created[k].iobject_data
        IN  (/\ e.name = "Incident"
             /\ Cardinality(ChildrenNamed(e, "IncidentID")) = 1)
            => LET c == FirstNamed(e, "IncidentID")
                   N == Get(c.attributes, "name")
                   T == c.content
               IN  (/\ ~IsNone(N)
                    /\ ~Contains(Val(N), ":")
                    /\ ~Contains(T, ":"))
                   => /\ created[k].identifier_ns_uri = Val(N)
                      /\ created[k].uid = T

UTC_2006_06_08_10_44_53 ==
    [year |-> 2006, month |-> 6, day |-> 8, hour |-> 10, minute |-> 44,
     second |-> 53, microsecond |-> 0, tzinfo |-> Some(0)]

\* the document of the latest call has exactly one child, an Incident whose
\* first children are IncidentID name="csirt.example.com" with text "908711"
\* and ReportTime "2006-06-08T05:44:53-05:00"
IsBotnetExample(doc) ==
    /\ Len(doc.children) = 1
    /\ doc.children[1].name = "Incident"
    /\ Len(doc.children[1].children) >= 2
    /\ doc.children[1].children[1].name = "IncidentID"
    /\ Get(doc.children[1].children[1].attributes, "name") = Some(CSIRT)
    /\ doc.children[1].children[1].content = ID_908711
    /\ doc.children[1].children[2].name = "ReportTime"
    /\ doc.children[1].children[2].content = TS_EXAMPLE

LastSegment(s, c) ==
    LET at == {i \in 1..Len(s) : s[i] = c}
    IN  IF at = {} THEN s
        ELSE Slice(s, 1 + (CHOOSE i \in at : \A j \in at : j <= i), Len(s) + 1)

\* the pieces of ss joined by the character c
RECURSIVE Join(_, _)
Join(ss, c) ==
    IF Len(ss) = 0 THEN << >>
    ELSE IF Len(ss) = 1 THEN ss[1]
    ELSE ss[1] \o <<c>> \o Join(Tail(ss), c)

Count(s, c) == Cardinality({i \in 1..Len(s) : s[i] = c})

FactIn == Val(fact_in).fact
FactOut == Val(fact_out)

\* C5: for every fact whose term's last '/'-separated segment is
\* "Portlist", the fact handler sets the fact's values to the
\* comma-separated tokens of the fact value, in their original order,
\* exactly (number of commas + 1) of them, and returns True so that the
\* fact is not suppressed; for a fact whose last term segment is not
\* "Portlist" the handler is not selected and the values stay the single
\* fact value.
C5_PortlistSplit ==
    (~IsNone(fact_out) /\ ~FactOut.ignored)
    => IF LastSegment(FactIn.term, "/") = PORTLIST
       THEN /\ FactOut.handler_selected
            /\ FactOut.created
            /\ Len(FactOut.add_fact_kargs.values) = Count(FactIn.value, ",") + 1
            /\ \A i \in 1..Len(FactOut.add_fact_kargs.values) :
                   ~Contains(FactOut.add_fact_kargs.values[i], ",")
            /\ Join(FactOut.add_fact_kargs.values, ",") = FactIn.value
       ELSE /\ ~FactOut.handler_selected
            /\ FactOut.add_fact_kargs.values = <<FactIn.value>>

PORTS_3 == <<<<"8", "0">>, <<"4", "4", "3">>, <<"8", "0", "8", "0">>>>

\* the port list "80,443,8080" of a Service/Portlist text fact was split
\* into its three values
C5_Witness ==
    /\ ~IsNone(fact_out)
    /\ ~Val(fact_in).is_attribute
    /\ FactIn.term = <<"S", "e", "r", "v", "i", "c", "e", "/", "P", "o", "r", "t", "l", "i", "s", "t">>
    /\ FactOut.handler_selected
    /\ FactOut.created
    /\ FactOut.add_fact_kargs.values = PORTS_3

CallNsUri ==
    IF IsNone(CallDoc.ns) THEN DINGOS_NAMESPACE_URI ELSE NsUris[Val(CallDoc.ns)]

\* uri is "urn:ietf:params:xml:ns:<family>-<revision>" with a family free
\* of '-', the '-' between the two standing at position d
IsFamilyRevisionAt(uri, d) ==
    /\ HasAt(uri, URN_PREFIX, 1)
    /\ d > Len(URN_PREFIX) /\ d <= Len(uri)
    /\ uri[d] = "-"
    /\ \A j \in (Len(URN_PREFIX) + 1)..(d - 1) : uri[j] # "-"

URN_IODEF == <<"u", "r", "n", ":", "i", "e", "t", "f", ":", "p", "a", "r", "a", "m", "s", ":", "x", "m", "l", ":", "n", "s", ":", "i", "o", "d", "e", "f">>
REVISION_1_0 == <<"1", ".", "0">>

MatchesNoPattern(uri) ==
    \A i \in 1..Len(uri) :
        HasAt(uri, URN_PREFIX, i) =>
            \A j \in (i + Len(URN_PREFIX))..Len(uri) : uri[j] # "-"

\* every ReportTime of the document's Incidents is a date-time text
ReportTimesParse(doc) ==
    \A i \in 1..Len(doc.children) :
        doc.children[i].name = "Incident" =>
            \A j \in ChildrenNamed(doc.children[i], "ReportTime") :
                parse_datetime(doc.children[i].children[j].content).kind = "ok"

C9_StateResetPerCall ==
    ~IsNone(call) =>
      LET fresh == xml_import(InitSelf(0), now - 1, CallDoc, CallArg)
      IN  /\ self = fresh.self
          /\ created = fresh.created
          /\ pending_stack = fresh.pending_stack
          /\ raised = fresh.raised
          /\ self.create_timestamp = ClockTime(now - 1)
          /\ self.identifier_ns_uri =
               IF IsNone(CallArg.identifier_ns_uri)
                  \/ Val(CallArg.identifier_ns_uri) = EMPTY_STR
               THEN DINGOS_DEFAULT_ID_NAMESPACE_URI
               ELSE Val(CallArg.identifier_ns_uri)
          /\ DOMAIN self.namespace_dict = {0} \cup NsKeysOf(CallDoc)
          /\ MatchesNoPattern(CallNsUri) =>
               /\ self.iobject_family_name = IODEF
               /\ self.iobject_family_revision_name = EMPTY_STR

\* a later call on the same instance, without identifier_ns_uri argument
\* and on a document whose namespace matches no pattern, left the defaults
C9_Witness ==
    /\ ncalls >= 2
    /\ ~raised
    /\ IsNone(CallArg.identifier_ns_uri)
    /\ MatchesNoPattern(CallNsUri)
    /\ self.identifier_ns_uri = DINGOS_DEFAULT_ID_NAMESPACE_URI
    /\ self.iobject_family_revision_name = EMPTY_STR
    /\ Len(created) >= 1

\* the children of the document that are Incidents with an IncidentID and
\* whose ReportTime texts, if any, are date-times
SoundIncidents(doc) ==
    {i \in 1..Len(doc.children) :
        /\ doc.children[i].name = "Incident"
        /\ ChildrenNamed(doc.children[i], "IncidentID") # {}
        /\ \A j \in ChildrenNamed(doc.children[i], "ReportTime") :
              parse_datetime(doc.children[i].children[j].content).kind = "ok"}

\* C10: when the text of an Incident's ReportTime child cannot be parsed as
\* a date-time, the failure is confined to that record and does not abort
\* the extraction of the whole document: the other records of the document
\* are still processed, so every Incident with an IncidentID and without a
\* malformed ReportTime is still handed to create_iobject.
C10_ParseErrorConfinedToRecord ==
    ~IsNone(call) => Len(created) = Cardinality(SoundIncidents(CallDoc))

\* the latest call was given a non-empty identifier_ns_uri argument
HasIdentifierNsArg ==
    /\ ~IsNone(CallArg.identifier_ns_uri)
    /\ Val(CallArg.identifier_ns_uri) # EMPTY_STR

\* C11: when xml_import is called with a non-empty identifier_ns_uri
\* argument, that URI is the identifier namespace of the generated records:
\* every create_iobject call of that xml_import call receives it as the
\* record's identifier namespace.
C11_IdentifierNsArgumentUsed ==
    (~IsNone(call) /\ HasIdentifierNsArg)
    => \A k \in 1..Len(created) :
           created[k].identifier_ns_uri = Val(CallArg.identifier_ns_uri)

\* the children of the document that are extracted as records, in document
\* order
IncidentsOf(doc) == SelectSeq(doc.children, LAMBDA c : c.name = "Incident")

\* entry i of the pending stack is the record made of the element elt
IsRecordOf(i, elt) ==
    /\ pending_stack[i].elt_name = elt.name
    /\ pending_stack[i].elt_dict.name = elt.name
    /\ pending_stack[i].elt_dict.attributes = elt.attributes
    /\ pending_stack[i].elt_dict.ns = elt.ns

\* C12: records are handed to the persistence function in a fixed order:
\* the top-level record is considered first, then the embedded records in
\* the order in which they were extracted (document order); the sequence of
\* create_iobject calls is a subsequence of that order and no record is
\* handed off twice.
C12_HandOffOrder ==
    ~IsNone(call) =>
      /\ ~raised =>
           /\ Len(pending_stack) = 1 + Len(IncidentsOf(CallDoc))
           /\ IsRecordOf(1, CallDoc)
           /\ \A k \in 1..Len(IncidentsOf(CallDoc)) :
                /\ IsRecordOf(k + 1, IncidentsOf(CallDoc)[k])
                /\ pending_stack[k + 1].elt_dict.children
                     = IncidentsOf(CallDoc)[k].children
      /\ \A k \in 1..Len(created) :
           /\ created[k].rec \in 1..Len(pending_stack)
           /\ created[k].iobject_data = pending_stack[created[k].rec].elt_dict
           /\ created[k].iobject_type_name = pending_stack[created[k].rec].elt_name
      /\ \A k \in 1..(Len(created) - 1) : created[k].rec < created[k + 1].rec

\* two different Incidents of one document were handed over, the earlier
\* one of the document first
C12_Witness ==
    /\ ~IsNone(call)
    /\ Len(IncidentsOf(CallDoc)) = 2
    /\ IncidentsOf(CallDoc)[1] # IncidentsOf(CallDoc)[2]
    /\ Len(created) = 2
    /\ created[1].iobject_data.children = IncidentsOf(CallDoc)[1].children
    /\ created[2].iobject_data.children = IncidentsOf(CallDoc)[2].children

\* C13: for every parent node, child node and namespace mapping,
\* embedding_pred returns the label "Incident" (extract as a typed record)
\* exactly when the child's element name is "Incident", and returns False
\* (inline content) for every other child name, independently of the parent
\* and of the namespace mapping.
C13_EmbedExactlyIncident ==
    ~IsNone(embed_out) =>
        /\ Val(embed_in).child.name = "Incident"
             => Val(embed_out) = Some("Incident")
        /\ Val(embed_in).child.name # "Incident"
             => Val(embed_out) = None

\* an Incident found below an element that is not the top-level element,
\* with a namespace the mapping does not hold, was labelled "Incident"
C13_Witness ==
    /\ ~IsNone(embed_out)
    /\ Val(embed_in).parent.name = "Contact"
    /\ Val(embed_in).child.name = "Incident"
    /\ Val(embed_in).child.ns = Some(1)
    /\ DOMAIN Val(embed_in).ns_mapping = {0}
    /\ Val(embed_out) = Some("Incident")

\* the text ends in a zone designator: "Z" or "+hh:mm" or "-hh:mm"
CarriesZone(text) ==
    \/ At(text, Len(text)) = "Z"
    \/ /\ Len(text) >= 6
       /\ text[Len(text) - 5] \in {"+", "-"}
       /\ text[Len(text) - 2] = ":"

UTC_2006_06_08_05_44_53 ==
    [year |-> 2006, month |-> 6, day |-> 8, hour |-> 5, minute |-> 44,
     second |-> 53, microsecond |-> 0, tzinfo |-> Some(0)]

UTC_2007_02_28_23_59_00 ==
    [year |-> 2007, month |-> 2, day |-> 28, hour |-> 23, minute |-> 59,
     second |-> 0, microsecond |-> 0, tzinfo |-> Some(0)]

UTC_2008_02_29_23_30_15_5 ==
    [year |-> 2008, month |-> 2, day |-> 29, hour |-> 23, minute |-> 30,
     second |-> 15, microsecond |-> 500000, tzinfo |-> Some(0)]

\* the timestamp ts is what the ReportTime text stands for: read as UTC when
\* the text carries no zone, the same instant when it carries one
StandsFor(ts, text) ==
    /\ parse_datetime(text).kind = "ok"
    /\ ~CarriesZone(text) =>
         /\ IsNone(parse_datetime(text).dt.tzinfo)
         /\ ts = [parse_datetime(text).dt EXCEPT !.tzinfo = Some(0)]
    /\ CarriesZone(text) =>
         /\ ~IsNone(parse_datetime(text).dt.tzinfo)
         /\ Instant(ts) = Instant(parse_datetime(text).dt)
    /\ text = TS_NAIVE => ts = UTC_2006_06_08_05_44_53
    /\ text = TS_EXAMPLE => Instant(ts) = Instant(UTC_2006_06_08_10_44_53)
    /\ text = TS_ZULU => Instant(ts) = Instant(UTC_2007_02_28_23_59_00)
    /\ text = TS_EAST => Instant(ts) = Instant(UTC_2008_02_29_23_30_15_5)

\* C14: every timestamp returned by id_and_revision_extractor is either
\* absent or timezone-aware: a ReportTime text parsed without a zone offset
\* is interpreted as UTC (same wall-clock fields, offset 0), and a parsed
\* value that carries an offset is returned denoting the same instant.
C14_TimestampAware ==
    (/\ ~IsNone(extracted)
     /\ ~Val(extracted).raised
     /\ ~IsNone(Val(extracted).timestamp))
    => /\ is_aware(Val(Val(extracted).timestamp))
       /\ \E j \in ChildrenNamed(Val(xml_elt), "ReportTime") :
              StandsFor(Val(Val(extracted).timestamp),
                        Val(xml_elt).children[j].content)

\* an Incident whose only ReportTime is "2006-06-08T05:44:53", without zone,
\* got the timestamp 2006-06-08T05:44:53 UTC
C14_Witness ==
    /\ ~IsNone(extracted)
    /\ Val(xml_elt).name = "Incident"
    /\ Cardinality(ChildrenNamed(Val(xml_elt), "ReportTime")) = 1
    /\ FirstNamed(Val(xml_elt), "ReportTime").content = TS_NAIVE
    /\ Val(extracted).timestamp = Some(UTC_2006_06_08_05_44_53)

\* the reading of the clock at the start of the latest xml_import call
CallTime == ClockTime(now - 1)

\* C15: for every record handed to create_iobject, the timestamp is the
\* record's extracted timestamp when one was found, and otherwise falls
\* back to the extraction (creation) time of the current xml_import call;
\* that creation time is set once per call and is the same value for all
\* records handed off in that call.
C15_TimestampFallback ==
    ~IsNone(call) =>
      /\ self.create_timestamp = CallTime
      /\ \A k \in 1..Len(created) :
           /\ created[k].create_timestamp = CallTime
           /\ created[k].timestamp =
                IF IsNone(pending_stack[created[k].rec].id_and_rev_info.timestamp)
                THEN CallTime
                ELSE Val(pending_stack[created[k].rec].id_and_rev_info.timestamp)
           /\ ChildrenNamed(created[k].iobject_data, "ReportTime") = {}
                => created[k].timestamp = CallTime
           /\ ChildrenNamed(created[k].iobject_data, "ReportTime") # {}
                => \E j \in ChildrenNamed(created[k].iobject_data, "ReportTime") :
                       StandsFor(created[k].timestamp,
                                 created[k].iobject_data.children[j].content)

\* one call handed over a record with a ReportTime under its own timestamp
\* and a record without ReportTime under the creation time of the call
C15_Witness ==
    /\ ~IsNone(call)
    /\ Len(created) = 2
    /\ \E k, l \in 1..2 :
         /\ ChildrenNamed(created[k].iobject_data, "ReportTime") # {}
         /\ created[k].timestamp # CallTime
         /\ ChildrenNamed(created[l].iobject_data, "ReportTime") = {}
         /\ created[l].timestamp = CallTime
         /\ created[k].create_timestamp = created[l].create_timestamp

\* the document has exactly one Incident, and that Incident has an IncidentID
HasOneIdentifiedIncident(doc) ==
    /\ Len(IncidentsOf(doc)) = 1
    /\ ChildrenNamed(IncidentsOf(doc)[1], "IncidentID") # {}

\* for an element that is no Incident the extractor returns id absent and
\* timestamp absent
C16_NonIncidentHasNoId ==
    (~IsNone(extracted) /\ Val(xml_elt).name # "Incident")
    => /\ ~Val(extracted).raised
       /\ IsNone(Val(extracted).id)
       /\ IsNone(Val(extracted).timestamp)

\* the top-level element of the imported document is not handed over
C16_TopLevelNotHandedOff ==
    ~IsNone(call) =>
      /\ HandOffs(1) = {}
      /\ ~raised => /\ IsNone(pending_stack[1].id_and_rev_info.id)
                    /\ IsNone(pending_stack[1].id_and_rev_info.timestamp)
      /\ \A k \in 1..Len(created) : created[k].iobject_type_name # CallDoc.name

\* C16: for every element whose name is not "Incident" (in particular the
\* top-level IODEF-Document element), id_and_revision_extractor returns id
\* absent and timestamp absent whatever its children are, so the top-level
\* element is never handed to create_iobject; importing a document with
\* exactly one Incident that has an IncidentID therefore creates exactly
\* one information object (one create_iobject call), not two.
C16_OneIncidentOneObject ==
    /\ C16_NonIncidentHasNoId
    /\ C16_TopLevelNotHandedOff
    /\ (~IsNone(call) /\ HasOneIdentifiedIncident(CallDoc))
         => Len(created) = 1

\* the attribute map of the node the fact stems from
AttrInfo == Val(fact_in).attr_info

\* the keys of add_fact_kargs that describe the datatype namespace and name
DatatypeKeys == {"fact_dt_name", "fact_dt_namespace_uri", "fact_dt_namespace_name"}

\* C17: datatype_extractor returns True exactly when the node's attribute
\* map contains the key "dtype"; in that case it sets fact_dt_name to the
\* dtype value, fact_dt_namespace_uri to "urn:ietf:params:xml:ns:iodef-1.0"
\* and fact_dt_namespace_name to "IODEF" and changes no other key of
\* add_fact_kargs; when "dtype" is absent it returns False and leaves
\* add_fact_kargs entirely unchanged (datatype unset).
C17_DatatypeFromDtype ==
    (~IsNone(fact_out) /\ ~FactOut.ignored)
    => /\ DOMAIN FactOut.add_fact_kargs = DOMAIN FactOut.handler_kargs
       /\ IF \E i \in 1..Len(AttrInfo) : AttrInfo[i][1] = DTYPE
          THEN /\ FactOut.datatype_found
               /\ \E i \in 1..Len(AttrInfo) :
                      /\ AttrInfo[i][1] = DTYPE
                      /\ FactOut.add_fact_kargs.fact_dt_name = Some(AttrInfo[i][2])
               /\ FactOut.add_fact_kargs.fact_dt_namespace_uri
                    = Some(URN_IODEF \o <<"-">> \o REVISION_1_0)
               /\ FactOut.add_fact_kargs.fact_dt_namespace_name = Some(IODEF_DT_NAMESPACE_NAME)
               /\ \A key \in (DOMAIN FactOut.handler_kargs) \ DatatypeKeys :
                      FactOut.add_fact_kargs[key] = FactOut.handler_kargs[key]
          ELSE /\ ~FactOut.datatype_found
               /\ FactOut.add_fact_kargs = FactOut.handler_kargs
               /\ IsNone(FactOut.add_fact_kargs.fact_dt_name)
               /\ IsNone(FactOut.add_fact_kargs.fact_dt_namespace_uri)
               /\ IsNone(FactOut.add_fact_kargs.fact_dt_namespace_name)

\* a Portlist fact of a node with an empty dtype attribute got the empty
\* datatype name and the IODEF datatype namespace, its split values kept
C17_Witness ==
    /\ ~IsNone(fact_out)
    /\ ~FactOut.ignored
    /\ Get(AttrInfo, DTYPE) = Some(EMPTY_STR)
    /\ FactOut.datatype_found
    /\ FactOut.add_fact_kargs.fact_dt_name = Some(EMPTY_STR)
    /\ FactOut.add_fact_kargs.fact_dt_namespace_name = Some(IODEF_DT_NAMESPACE_NAME)
    /\ FactOut.add_fact_kargs.values = PORTS_3

\* the namespace URI registered for the record's own element
OwnNsUri(elt_dict) ==
    IF IsNone(elt_dict.ns) THEN DINGOS_NAMESPACE_URI ELSE NsUris[Val(elt_dict.ns)]

\* C18: within one xml_import call, the family name, family revision, and
\* (when a namespace pattern matches) the type namespace URI and type
\* revision passed to create_iobject are identical for every record handed
\* off: they are resolved once from the namespace of the top-level element,
\* never from the namespace of the embedded record itself; only when no
\* pattern matches does the type namespace URI depend on the individual
\* record's own namespace.
C18_TypeResolvedOncePerCall ==
    ~IsNone(call) =>
      /\ \A k \in 1..Len(created) :
           /\ created[k].iobject_family_name = self.iobject_family_name
           /\ created[k].iobject_family_revision_name
                = self.iobject_family_revision_name
           /\ created[k].iobject_family_name = created[1].iobject_family_name
           /\ created[k].iobject_family_revision_name
                = created[1].iobject_family_revision_name
           /\ created[k].iobject_type_revision_name
                = created[1].iobject_type_revision_name
      /\ IF MatchesNoPattern(CallNsUri)
         THEN \A k \in 1..Len(created) :
                /\ created[k].iobject_type_namespace_uri
                     = OwnNsUri(created[k].iobject_data)
                /\ IsNone(created[k].iobject_type_revision_name)
         ELSE \A k \in 1..Len(created) :
                /\ created[k].iobject_type_namespace_uri
                     = created[1].iobject_type_namespace_uri
                /\ \A d \in 1..Len(CallNsUri) :
                     IsFamilyRevisionAt(CallNsUri, d) =>
                       /\ created[k].iobject_type_namespace_uri
                            = Slice(CallNsUri, 1, d)
                       /\ created[k].iobject_type_revision_name
                            = Some(Slice(CallNsUri, d + 1, Len(CallNsUri) + 1))

\* in a document of namespace "urn:ietf:params:xml:ns:iodef-1.0" a record
\* whose own element is in another namespace matching the pattern was
\* handed over with the type namespace and revision of the document, as
\* the record before it
C18_Witness ==
    /\ ~IsNone(call)
    /\ CallNsUri = IODEF_DT_NAMESPACE_URI
    /\ Len(created) = 2
    /\ OwnNsUri(created[1].iobject_data) # OwnNsUri(created[2].iobject_data)
    /\ ~MatchesNoPattern(OwnNsUri(created[2].iobject_data))
    /\ OwnNsUri(created[2].iobject_data) # CallNsUri
    /\ created[2].iobject_type_namespace_uri = URN_IODEF
    /\ created[2].iobject_type_revision_name = Some(REVISION_1_0)
    /\ created[1].iobject_type_namespace_uri = created[2].iobject_type_namespace_uri

====
